---- MODULE Spec2Model ----
(***************************************************************************)
(* Model of src/main.py: the TrendInfusedScriptService methods             *)
(* (extract_keyword, _parse_related_topics_csv, fetch_trends,              *)
(* generate_viral_angle, generate_script) and the full_pipeline handler.   *)
(*                                                                         *)
(* A Python str is a sequence of one-character strings, so that strip(),   *)
(* lower(), upper(), len() and the re.sub of the parser are computed.      *)
(***************************************************************************)
EXTENDS Integers, Sequences, FiniteSets, TLC

VARIABLES
    csv_data,          \* argument of _parse_related_topics_csv
    trends,            \* its return value
    parse_done,        \* the parser has returned
    pc,                \* position of the request handler
    video_idea,        \* request.video_idea / original_idea
    keyword,           \* result of step 1
    category_trends,   \* TrendSet: result of step 2 or request body
    global_trends,     \* global list: result of step 2 or request body
    trend_candidates,  \* merged[:25] inside generate_viral_angle
    viral_angle,       \* result of step 3 (a JSON value)
    selected_trends,   \* result of step 3 (a JSON value)
    script_arg,        \* the viral_angle argument generate_script was called with
    script,            \* result of step 4
    calls,             \* the external calls made so far, in order
    ext,               \* what each external call answered
    outcome,           \* phase -> "none" | "ok" | "error"
    response           \* what the handler gives the caller

vars == <<csv_data, trends, parse_done, pc, video_idea, keyword, category_trends,
          global_trends, trend_candidates, viral_angle, selected_trends,
          script_arg, script, calls, ext, outcome, response>>

parserVars == <<csv_data, trends, parse_done>>
requestVars == <<pc, video_idea, keyword, category_trends, global_trends,
                 trend_candidates, viral_angle, selected_trends, script_arg,
                 script, calls, ext, outcome, response>>

----------------------------------------------------------------------------
(* Bounds of the explored inputs *)

\* longest csv export drawn freely from LinePool
MaxLines == 3
\* longest trend source list drawn freely from TrendPool
MaxSrc == 2
\* longest global trend list drawn freely from TrendPool
MaxGlobal == 1
\* length of each numbered trend list, three of which overflow the cap
LongLen == 14
\* length of the oversized keyword answer
LongKeyword == 80

----------------------------------------------------------------------------
(* Python str primitives on character sequences *)

UpperChars == <<"A","B","C","D","E","F","G","H","I","J","K","L","M",
                "N","O","P","Q","R","S","T","U","V","W","X","Y","Z">>
LowerChars == <<"a","b","c","d","e","f","g","h","i","j","k","l","m",
                "n","o","p","q","r","s","t","u","v","w","x","y","z">>
DigitChars == <<"0","1","2","3","4","5","6","7","8","9">>

Whitespace == {" ", "\t", "\n"}

Occurs(c, table) == \E i \in 1..Len(table) : table[i] = c

\* the case mappings of the ASCII letters
LowerOf == [c \in {UpperChars[i] : i \in 1..Len(UpperChars)} |->
               LowerChars[CHOOSE i \in 1..Len(UpperChars) : UpperChars[i] = c]]
UpperOf == [c \in {LowerChars[i] : i \in 1..Len(LowerChars)} |->
               UpperChars[CHOOSE i \in 1..Len(LowerChars) : LowerChars[i] = c]]

ToLower(c) == IF c \in DOMAIN LowerOf THEN LowerOf[c] ELSE c
ToUpper(c) == IF c \in DOMAIN UpperOf THEN UpperOf[c] ELSE c

\* str.lower()
lower(s) == [i \in 1..Len(s) |-> ToLower(s[i])]
\* str.upper()
upper(s) == [i \in 1..Len(s) |-> ToUpper(s[i])]

\* str.strip(): drop leading and trailing whitespace
strip(s) ==
    IF \A i \in 1..Len(s) : s[i] \in Whitespace THEN <<>>
    ELSE LET first == CHOOSE i \in 1..Len(s) :
                          /\ s[i] \notin Whitespace
                          /\ \A j \in 1..(i-1) : s[j] \in Whitespace
             last  == CHOOSE i \in 1..Len(s) :
                          /\ s[i] \notin Whitespace
                          /\ \A j \in (i+1)..Len(s) : s[j] \in Whitespace
         IN SubSeq(s, first, last)

IsDigit(c) == Occurs(c, DigitChars)

----------------------------------------------------------------------------
(* _parse_related_topics_csv *)

TOP == <<"T","O","P">>
RISING == <<"R","I","S","I","N","G">>
Breakout == <<"B","r","e","a","k","o","u","t">>

EmptyTrendSet == [top |-> <<>>, rising |-> <<>>]

\* where the `$` of the pattern can match: at the end of the row, or just
\* before a newline that is the row's last character
ValueEnd(row) ==
    IF Len(row) > 0 /\ row[Len(row)] = "\n" THEN Len(row) - 1 ELSE Len(row)

\* t matches \+?\d+%? entirely
MatchesNumber(t) ==
    LET a == IF Len(t) > 0 /\ t[1] = "+" THEN 2 ELSE 1
        b == IF Len(t) >= a /\ t[Len(t)] = "%" THEN Len(t) - 1 ELSE Len(t)
    IN  b >= a /\ \A i \in a..b : IsDigit(t[i])

\* t matches (\+?\d+%?|Breakout) entirely
MatchesValue(t) == MatchesNumber(t) \/ t = Breakout

\* the positions of a comma at which ,(\+?\d+%?|Breakout)$ matches
SuffixStarts(row) ==
    {i \in 1..ValueEnd(row) :
        /\ row[i] = ","
        /\ MatchesValue(SubSeq(row, i + 1, ValueEnd(row)))}

\* re.sub(r',(\+?\d+%?|Breakout)$', '', row): a no-op when nothing matches
StripValueSuffix(row) ==
    IF SuffixStarts(row) = {} THEN row
    ELSE LET i == CHOOSE i \in SuffixStarts(row) :
                      \A j \in SuffixStarts(row) : i <= j
         IN SubSeq(row, 1, i - 1) \o SubSeq(row, ValueEnd(row) + 1, Len(row))

\* the topic a data row stands for
TopicOf(row) == strip(StripValueSuffix(row))

\* AppendTopic with insert(0, topic) in place of append(topic)
AppendTopic_Prepend(t, section, topic) ==
    IF section = "top" THEN [t EXCEPT !.top = <<topic>> \o @]
    ELSE [t EXCEPT !.rising = <<topic>> \o @]

\* trends[current_section].append(topic)
AppendTopic(t, section, topic) ==
    IF section = "top" THEN [t EXCEPT !.top = Append(@, topic)]
    ELSE [t EXCEPT !.rising = Append(@, topic)]

\* ParseRow without the test for a colon in the row
ParseRow_NoColonSkip(st, row) ==
    IF row = <<>> THEN st
    ELSE IF upper(row) = TOP THEN [st EXCEPT !.current_section = "top"]
    ELSE IF upper(row) = RISING THEN [st EXCEPT !.current_section = "rising"]
    ELSE IF st.current_section = "none" THEN st
    ELSE IF TopicOf(row) # <<>>
         THEN [st EXCEPT !.trends = AppendTopic(@, st.current_section, TopicOf(row))]
         ELSE st

\* ParseRow without the `if topic:` test
ParseRow_AppendEmpty(st, row) ==
    IF row = <<>> THEN st
    ELSE IF upper(row) = TOP THEN [st EXCEPT !.current_section = "top"]
    ELSE IF upper(row) = RISING THEN [st EXCEPT !.current_section = "rising"]
    ELSE IF Occurs(":", row) \/ st.current_section = "none" THEN st
    ELSE [st EXCEPT !.trends = AppendTopic(@, st.current_section, TopicOf(row))]

\* one iteration of the loop over csv_data; st = [trends, current_section]
ParseRow(st, row) ==
    IF row = <<>> THEN st
    ELSE IF upper(row) = TOP THEN [st EXCEPT !.current_section = "top"]
    ELSE IF upper(row) = RISING THEN [st EXCEPT !.current_section = "rising"]
    ELSE IF Occurs(":", row) \/ st.current_section = "none" THEN st
    ELSE IF TopicOf(row) # <<>>
         THEN [st EXCEPT !.trends = AppendTopic(@, st.current_section, TopicOf(row))]
         ELSE st

RECURSIVE ParseRows(_, _)
ParseRows(st, rows) ==
    IF rows = <<>> THEN st
    ELSE ParseRows(ParseRow(st, Head(rows)), Tail(rows))

_parse_related_topics_csv(rows) ==
    IF rows = <<>> THEN EmptyTrendSet
    ELSE ParseRows([trends |-> EmptyTrendSet, current_section |-> "none"], rows).trends

----------------------------------------------------------------------------
(* Inputs of the parser *)

LineTopLower == <<"t","o","p">>
LineRisingMixed == <<"R","i","s","i","n","g">>
LineCoffee100 == <<"C","o","f","f","e","e",",","1","0","0">>
LineCoffee == <<"C","o","f","f","e","e">>
LineTeaPct == <<"T","e","a",",","+","2","0","%">>
LineMatchaBreakout == <<"M","a","t","c","h","a",",","B","r","e","a","k","o","u","t">>
LineComma == <<",">>
LineOnlyValue == <<",","1","0","0">>
LineMeta == <<"C","a","t","e","g","o","r","y",":"," ","7","1">>
LineSpace == <<" ">>

LinePool == {<<>>, TOP, RISING, LineTopLower, LineRisingMixed, LineCoffee100,
             LineCoffee, LineTeaPct, LineMatchaBreakout, LineComma,
             LineOnlyValue, LineMeta, LineSpace}

ScenarioA == <<TOP, LineCoffee100, LineTeaPct, RISING, LineMatchaBreakout>>

SeqsUpTo(S, n) == UNION {[1..k -> S] : k \in 0..n}

\* the TOP header comes twice and both times is followed by the same topic
CsvRepeatedHeader == <<TOP, LineCoffee100, RISING, LineTeaPct, TOP, LineCoffee>>

CsvInputs == SeqsUpTo(LinePool, MaxLines) \cup {ScenarioA, CsvRepeatedHeader}

----------------------------------------------------------------------------
(* Python / JSON values that are not always a str *)

PyStr(s) == [kind |-> "str", str |-> s]
PyNone == [kind |-> "none", str |-> <<>>]
\* a truthy value that is not a str (a non-empty JSON array or object)
PyOther == [kind |-> "other", str |-> <<>>]

\* bool(v)
Truthy(v) == v.kind = "other" \/ (v.kind = "str" /\ v.str # <<>>)

PyList(items) == [kind |-> "list", items |-> items]
\* the key is absent from the JSON object
JsonMissing == [kind |-> "missing", items |-> <<>>]
JsonNull == [kind |-> "none", items |-> <<>>]
JsonNotList == [kind |-> "other", items |-> <<>>]

----------------------------------------------------------------------------
(* HTTPException details, without the str(e) that follows the colon *)

DetailExtract == "Failed to extract keyword"
DetailFetch == "Failed to fetch trends"
DetailAngle == "Failed to generate viral angle"
DetailScript == "Failed to generate script"
DetailPipeline == "Pipeline failed"
DetailUnhandled == "Internal Server Error"

----------------------------------------------------------------------------
(* extract_keyword *)

MaxKeywordLen == 50

\* extract_keyword with the length test off by one
extract_keyword_OffByOne(idea, llm) ==
    IF llm.raises
    THEN [status |-> "error", keyword |-> <<>>, detail |-> DetailExtract]
    ELSE LET kw == lower(strip(llm.text))
         IN IF kw = <<>> \/ Len(kw) > MaxKeywordLen + 1
            THEN [status |-> "error", keyword |-> <<>>, detail |-> DetailExtract]
            ELSE [status |-> "ok", keyword |-> kw, detail |-> ""]

\* llm = [raises, text]: generate_content or response.text raised, or the text
extract_keyword(idea, llm) ==
    IF llm.raises
    THEN [status |-> "error", keyword |-> <<>>, detail |-> DetailExtract]
    ELSE LET kw == lower(strip(llm.text))
         IN IF kw = <<>> \/ Len(kw) > MaxKeywordLen
            THEN [status |-> "error", keyword |-> <<>>, detail |-> DetailExtract]
            ELSE [status |-> "ok", keyword |-> kw, detail |-> ""]

----------------------------------------------------------------------------
(* fetch_trends *)

\* the list comprehension over trending_searches: entries without a query,
\* or with an empty one, are left out
GlobalQueries(items) == SelectSeq(items, LAMBDA q : q # <<>>)

\* fetch_trends with the global half tested against results_cat
fetch_trends_WrongErrorTest(kw, category_id, cat, glob) ==
    IF cat.kind = "raise"
    THEN [status |-> "error", category_trends |-> EmptyTrendSet, global_trends |-> <<>>,
          detail |-> DetailFetch, calls |-> <<"serp_category">>]
    ELSE LET ct == IF cat.kind # "error"
                   THEN _parse_related_topics_csv(cat.csv)
                   ELSE EmptyTrendSet
         IN IF glob.kind = "raise"
            THEN [status |-> "error", category_trends |-> EmptyTrendSet,
                  global_trends |-> <<>>, detail |-> DetailFetch,
                  calls |-> <<"serp_category", "serp_global">>]
            ELSE [status |-> "ok", category_trends |-> ct,
                  global_trends |-> IF cat.kind # "error"
                                    THEN GlobalQueries(glob.items) ELSE <<>>,
                  detail |-> "", calls |-> <<"serp_category", "serp_global">>]

\* cat  = [kind, csv]:   "raise" (get_dict raised), "error" (the answer has an
\*        "error" key), "ok" (csv = results_cat.get("csv", []))
\* glob = [kind, items]: the same kinds; items = the title.query of each entry
\*        of the list the shape scan finds, <<>> for an entry without one and
\*        no entries when the scan finds no list
fetch_trends(kw, category_id, cat, glob) ==
    IF cat.kind = "raise"
    THEN [status |-> "error", category_trends |-> EmptyTrendSet, global_trends |-> <<>>,
          detail |-> DetailFetch, calls |-> <<"serp_category">>]
    ELSE LET ct == IF cat.kind # "error"
                   THEN _parse_related_topics_csv(cat.csv)
                   ELSE EmptyTrendSet
         IN IF glob.kind = "raise"
            THEN [status |-> "error", category_trends |-> EmptyTrendSet,
                  global_trends |-> <<>>, detail |-> DetailFetch,
                  calls |-> <<"serp_category", "serp_global">>]
            ELSE [status |-> "ok", category_trends |-> ct,
                  global_trends |-> IF glob.kind # "error"
                                    THEN GlobalQueries(glob.items) ELSE <<>>,
                  detail |-> "", calls |-> <<"serp_category", "serp_global">>]

----------------------------------------------------------------------------
(* generate_viral_angle *)

CandidateCap == 25

\* MergeTrend with `trend not in seen` as its test
MergeTrend_CaseSensitive(acc, trend) ==
    IF trend \notin acc.seen
    THEN [merged |-> Append(acc.merged, trend), seen |-> acc.seen \cup {lower(trend)}]
    ELSE acc

\* the body of the inner loop; acc = [merged, seen]
MergeTrend(acc, trend) ==
    IF lower(trend) \notin acc.seen
    THEN [merged |-> Append(acc.merged, trend), seen |-> acc.seen \cup {lower(trend)}]
    ELSE acc

RECURSIVE MergeSection(_, _)
MergeSection(acc, section) ==
    IF section = <<>> THEN acc
    ELSE MergeSection(MergeTrend(acc, Head(section)), Tail(section))

\* the sections in the order the outer loop reads them
MergeSources(ct, gt) == <<ct.rising, ct.top, gt>>

MergeAll(ct, gt) ==
    LET src == MergeSources(ct, gt)
        a0 == [merged |-> <<>>, seen |-> {}]
    IN MergeSection(MergeSection(MergeSection(a0, src[1]), src[2]), src[3]).merged

\* merged[:25]
TrendCandidates(ct, gt) ==
    LET merged == MergeAll(ct, gt)
    IN SubSeq(merged, 1, IF Len(merged) < CandidateCap THEN Len(merged) ELSE CandidateCap)

AngleError(cand) ==
    [status |-> "error", viral_angle |-> PyNone, selected_trends |-> PyList(<<>>),
     detail |-> DetailAngle, llm_called |-> TRUE, candidates |-> cand]

\* generate_viral_angle without the early return for an empty candidate list
generate_viral_angle_NoBypass(original_idea, ct, gt, llm) ==
    LET cand == TrendCandidates(ct, gt)
    IN IF llm.raises \/ ~llm.parses THEN AngleError(cand)
       ELSE LET va == llm.angle
                st == IF llm.selected.kind = "missing" THEN PyList(<<>>) ELSE llm.selected
            IN IF ~Truthy(va) \/ st.kind # "list" THEN AngleError(cand)
               ELSE [status |-> "ok", viral_angle |-> va, selected_trends |-> st,
                     detail |-> "", llm_called |-> TRUE, candidates |-> cand]

\* llm = [raises, parses, angle, selected]: the call raised; json.loads of the
\* text without its code fences gives an object; the object's "viral_angle"
\* and "selected_trends"
generate_viral_angle(original_idea, ct, gt, llm) ==
    LET cand == TrendCandidates(ct, gt)
    IN IF cand = <<>>
       THEN [status |-> "ok", viral_angle |-> PyStr(original_idea),
             selected_trends |-> PyList(<<>>), detail |-> "",
             llm_called |-> FALSE, candidates |-> cand]
       ELSE IF llm.raises \/ ~llm.parses THEN AngleError(cand)
       ELSE LET va == llm.angle
                st == IF llm.selected.kind = "missing" THEN PyList(<<>>) ELSE llm.selected
            IN IF ~Truthy(va) \/ st.kind # "list" THEN AngleError(cand)
               ELSE [status |-> "ok", viral_angle |-> va, selected_trends |-> st,
                     detail |-> "", llm_called |-> TRUE, candidates |-> cand]

----------------------------------------------------------------------------
(* generate_script *)

\* llm = [raises, text]
generate_script(angle, llm) ==
    IF llm.raises
    THEN [status |-> "error", script |-> <<>>, detail |-> DetailScript]
    ELSE [status |-> "ok", script |-> strip(llm.text), detail |-> ""]

----------------------------------------------------------------------------
(* What the callers and the external services may send *)

IdeaText == <<"I","c","e","d"," ","c","o","f","f","e","e"," ","b","e","a","t","s"," ","h","o","t">>
Ideas == {<<>>, IdeaText}

DefaultCategory == "71"

Rep(c, n) == [i \in 1..n |-> c]

LlmRaises == [raises |-> TRUE, text |-> <<>>]
LlmText(t) == [raises |-> FALSE, text |-> t]
\* the value of an ext field whose call was not made
NoLlmText == LlmText(<<>>)

KeywordPadded == <<" ","I","c","e","d"," ","C","o","f","f","e","e","\n">>

KeywordAnswers ==
    {LlmRaises} \cup
    {LlmText(t) : t \in {<<>>, <<" ">>, KeywordPadded,
                         Rep("a", MaxKeywordLen),
                         Rep("A", MaxKeywordLen + 1),
                         <<" ">> \o Rep("a", MaxKeywordLen) \o <<"\n">>,
                         Rep("a", LongKeyword)}}

CsvRepeated == <<RISING, LineCoffee, TOP, LineCoffee100, LineComma>>

NoCategoryAnswer == [kind |-> "not_called", csv |-> <<>>]
CategoryAnswers ==
    {[kind |-> "raise", csv |-> <<>>], [kind |-> "error", csv |-> <<>>]} \cup
    {[kind |-> "ok", csv |-> c] : c \in {<<>>, ScenarioA, CsvRepeated}}

TrendAutumn == <<"A","u","t","u","m","n">>
TrendCoffeeLower == <<"c","o","f","f","e","e">>

NoGlobalAnswer == [kind |-> "not_called", items |-> <<>>]
GlobalAnswers ==
    {[kind |-> "raise", items |-> <<>>], [kind |-> "error", items |-> <<>>]} \cup
    {[kind |-> "ok", items |-> g] : g \in {<<>>, <<TrendAutumn, <<>>, TrendCoffeeLower>>}}

AngleText == <<"F","i","l","m"," ","i","t"," ","i","n"," ","a","u","t","u","m","n">>
\* a trend name that is in no candidate list
TrendForeign == <<"B","i","t","c","o","i","n">>

AngleAnswer(a, sel) == [raises |-> FALSE, parses |-> TRUE, angle |-> a, selected |-> sel]
NoAngleAnswer == [raises |-> FALSE, parses |-> FALSE, angle |-> PyNone, selected |-> JsonMissing]

\* the answers to a prompt that lists the candidates cand (cand is not empty
\* when the call is made)
AngleAnswers(cand) ==
    LET first == IF cand = <<>> THEN <<>> ELSE <<cand[1]>>
    IN {[raises |-> TRUE, parses |-> FALSE, angle |-> PyNone, selected |-> JsonMissing],
        NoAngleAnswer,
        AngleAnswer(PyNone, PyList(first)),
        AngleAnswer(PyStr(<<>>), PyList(first)),
        AngleAnswer(PyOther, PyList(first)),
        AngleAnswer(PyStr(AngleText), JsonMissing),
        AngleAnswer(PyStr(AngleText), JsonNull),
        AngleAnswer(PyStr(AngleText), JsonNotList),
        AngleAnswer(PyStr(AngleText), PyList(first)),
        AngleAnswer(PyStr(AngleText), PyList(<<TrendForeign>>))}

ScriptText == <<" ","I","N","T","."," ","C","A","F","E"," ","#","c","o","f","f","e","e"," ","\n">>
ScriptAnswers ==
    {LlmRaises} \cup {LlmText(t) : t \in {<<>>, <<" ", "\n">>, ScriptText}}

\* trend lists of the /generate-viral-angle request body
TrendTea == <<"T","e","a">>
TrendTeaLower == <<"t","e","a">>
TrendChai == <<"C","h","a","i">>
TrendPool == {TrendTea, TrendTeaLower, TrendChai}

\* the decimal digits of n, 0 <= n <= 99
Decimal(n) ==
    IF n < 10 THEN <<DigitChars[n + 1]>>
    ELSE <<DigitChars[(n \div 10) + 1], DigitChars[(n % 10) + 1]>>

\* trend lists long enough for the merge to pass the cap: the last four
\* names of each list come back, in the other case, as the first four of the next
RisingLong == [i \in 1..LongLen |-> <<"T">> \o Decimal(i)]
TopLong == [i \in 1..LongLen |-> <<"t">> \o Decimal(i + LongLen - 4)]
GlobalLong == [i \in 1..LongLen |-> <<"T">> \o Decimal(i + 2 * LongLen - 8)]

TrendDalgona == <<"D","a","l","g","o","n","a"," ","c","o","f","f","e","e">>
TrendDalgonaLower == <<"d","a","l","g","o","n","a"," ","c","o","f","f","e","e">>
TrendCoffee == <<"C","o","f","f","e","e">>

\* rising, top and global of scenario B
ScenarioB == <<<<TrendDalgona>>, <<TrendCoffee, TrendDalgonaLower>>, <<TrendAutumn>>>>

AngleRequests ==
    {<<r, t, g>> : r \in SeqsUpTo(TrendPool, MaxSrc) \cup {RisingLong},
                   t \in SeqsUpTo(TrendPool, MaxSrc) \cup {TopLong},
                   g \in SeqsUpTo(TrendPool, MaxGlobal) \cup {GlobalLong}}
    \cup {ScenarioB}

----------------------------------------------------------------------------
(* Responses *)

NoBody == [original_idea |-> <<>>, keyword |-> <<>>, viral_angle |-> <<>>,
           selected_trends |-> <<>>, script |-> <<>>,
           category_trends |-> EmptyTrendSet, global_trends |-> <<>>]

NoResponse == [kind |-> "none", code |-> 0, detail |-> "", body |-> NoBody]

\* raise HTTPException(status_code=code, detail=...)
HttpError(code, detail) == [kind |-> "error", code |-> code, detail |-> detail, body |-> NoBody]

HttpOk(body) == [kind |-> "ok", code |-> 200, detail |-> "", body |-> body]

\* pydantic accepts the value for a field declared str
IsStr(v) == v.kind = "str"

NoOutcome == [extract |-> "none", fetch |-> "none", angle |-> "none", script |-> "none"]
NoExt == [keyword |-> NoLlmText, category |-> NoCategoryAnswer, global |-> NoGlobalAnswer,
          angle |-> NoAngleAnswer, script |-> NoLlmText]

----------------------------------------------------------------------------
(* State after construction, for each of the three entry points *)

ParserIdle ==
    /\ csv_data = <<>>
    /\ trends = EmptyTrendSet
    /\ parse_done = FALSE

RequestBlank ==
    /\ keyword = <<>>
    /\ trend_candidates = <<>>
    /\ viral_angle = PyNone
    /\ selected_trends = PyList(<<>>)
    /\ script_arg = PyNone
    /\ script = <<>>
    /\ calls = <<>>
    /\ ext = NoExt
    /\ outcome = NoOutcome
    /\ response = NoResponse

\* a /full-pipeline request has arrived
Init ==
    /\ ParserIdle
    /\ RequestBlank
    /\ pc = "extract"
    /\ video_idea \in Ideas
    /\ category_trends = EmptyTrendSet
    /\ global_trends = <<>>

\* _parse_related_topics_csv is about to be called
InitParser ==
    /\ csv_data \in CsvInputs
    /\ trends = EmptyTrendSet
    /\ parse_done = FALSE
    /\ RequestBlank
    /\ pc = "idle"
    /\ video_idea = <<>>
    /\ category_trends = EmptyTrendSet
    /\ global_trends = <<>>

\* a /generate-viral-angle request has arrived
InitAngle ==
    /\ ParserIdle
    /\ RequestBlank
    /\ pc = "angle_request"
    /\ video_idea = IdeaText
    /\ \E req \in AngleRequests :
          /\ category_trends = [top |-> req[2], rising |-> req[1]]
          /\ global_trends = req[3]

----------------------------------------------------------------------------
(* full_pipeline, one action per step *)

\* Step 1
PipelineExtractKeyword ==
    /\ pc = "extract"
    /\ \E llm \in KeywordAnswers :
          LET r == extract_keyword(video_idea, llm)
          IN /\ calls' = Append(calls, "llm_keyword")
             /\ ext' = [ext EXCEPT !.keyword = llm]
             /\ outcome' = [outcome EXCEPT !.extract = r.status]
             /\ keyword' = r.keyword
             /\ pc' = IF r.status = "ok" THEN "fetch" ELSE "failed"
             /\ response' = IF r.status = "ok" THEN response ELSE HttpError(500, r.detail)
    /\ UNCHANGED <<video_idea, category_trends, global_trends, trend_candidates,
                   viral_angle, selected_trends, script_arg, script>>
    /\ UNCHANGED parserVars

\* Step 2 with a failure of fetch_trends swallowed: the run goes on without trends
PipelineFetchTrends_Swallow ==
    /\ pc = "fetch"
    /\ \E cat \in CategoryAnswers, glob \in GlobalAnswers :
          LET r == fetch_trends(keyword, DefaultCategory, cat, glob)
          IN /\ calls' = calls \o r.calls
             /\ ext' = [ext EXCEPT !.category = cat,
                                   !.global = IF Len(r.calls) = 2 THEN glob ELSE @]
             /\ outcome' = [outcome EXCEPT !.fetch = r.status]
             /\ category_trends' = r.category_trends
             /\ global_trends' = r.global_trends
             /\ pc' = "angle"
             /\ response' = response
    /\ UNCHANGED <<video_idea, keyword, trend_candidates, viral_angle, selected_trends,
                   script_arg, script>>
    /\ UNCHANGED parserVars

\* Step 2
PipelineFetchTrends ==
    /\ pc = "fetch"
    /\ \E cat \in CategoryAnswers, glob \in GlobalAnswers :
          LET r == fetch_trends(keyword, DefaultCategory, cat, glob)
          IN /\ calls' = calls \o r.calls
             /\ ext' = [ext EXCEPT !.category = cat,
                                   !.global = IF Len(r.calls) = 2 THEN glob ELSE @]
             /\ outcome' = [outcome EXCEPT !.fetch = r.status]
             /\ category_trends' = r.category_trends
             /\ global_trends' = r.global_trends
             /\ pc' = IF r.status = "ok" THEN "angle" ELSE "failed"
             /\ response' = IF r.status = "ok" THEN response ELSE HttpError(500, r.detail)
    /\ UNCHANGED <<video_idea, keyword, trend_candidates, viral_angle, selected_trends,
                   script_arg, script>>
    /\ UNCHANGED parserVars

\* Step 3
PipelineViralAngle ==
    /\ pc = "angle"
    /\ \E llm \in AngleAnswers(TrendCandidates(category_trends, global_trends)) :
       \E r \in {generate_viral_angle(video_idea, category_trends, global_trends, llm)} :
             /\ calls' = IF r.llm_called THEN Append(calls, "llm_angle") ELSE calls
             /\ ext' = IF r.llm_called THEN [ext EXCEPT !.angle = llm] ELSE ext
             /\ outcome' = [outcome EXCEPT !.angle = r.status]
             /\ trend_candidates' = r.candidates
             /\ viral_angle' = r.viral_angle
             /\ selected_trends' = r.selected_trends
             /\ pc' = IF r.status = "ok" THEN "script" ELSE "failed"
             /\ response' = IF r.status = "ok" THEN response ELSE HttpError(500, r.detail)
    /\ UNCHANGED <<video_idea, keyword, category_trends, global_trends, script_arg, script>>
    /\ UNCHANGED parserVars

\* Step 4 and the construction of FullPipelineResponse
PipelineScript ==
    /\ pc = "script"
    /\ \E llm \in ScriptAnswers :
          LET r == generate_script(viral_angle, llm)
              body == [original_idea |-> video_idea, keyword |-> keyword,
                       viral_angle |-> viral_angle.str,
                       selected_trends |-> selected_trends.items,
                       script |-> r.script, category_trends |-> category_trends,
                       global_trends |-> global_trends]
          IN /\ calls' = Append(calls, "llm_script")
             /\ ext' = [ext EXCEPT !.script = llm]
             /\ outcome' = [outcome EXCEPT !.script = r.status]
             /\ script_arg' = viral_angle
             /\ script' = r.script
             /\ IF r.status = "error"
                THEN pc' = "failed" /\ response' = HttpError(500, r.detail)
                ELSE IF ~IsStr(viral_angle)
                THEN pc' = "failed" /\ response' = HttpError(500, DetailPipeline)
                ELSE pc' = "done" /\ response' = HttpOk(body)
    /\ UNCHANGED <<video_idea, keyword, category_trends, global_trends, trend_candidates,
                   viral_angle, selected_trends>>
    /\ UNCHANGED parserVars

Next ==
    \/ PipelineExtractKeyword
    \/ PipelineFetchTrends
    \/ PipelineViralAngle
    \/ PipelineScript

Spec == Init /\ [][Next]_vars

----------------------------------------------------------------------------
(* The /generate-viral-angle handler *)

HandleGenerateViralAngle ==
    /\ pc = "angle_request"
    /\ \E llm \in AngleAnswers(TrendCandidates(category_trends, global_trends)) :
       \E r \in {generate_viral_angle(video_idea, category_trends, global_trends, llm)} :
          LET body == [NoBody EXCEPT !.viral_angle = r.viral_angle.str,
                                     !.selected_trends = r.selected_trends.items]
          IN /\ calls' = IF r.llm_called THEN Append(calls, "llm_angle") ELSE calls
             /\ ext' = IF r.llm_called THEN [ext EXCEPT !.angle = llm] ELSE ext
             /\ outcome' = [outcome EXCEPT !.angle = r.status]
             /\ trend_candidates' = r.candidates
             /\ viral_angle' = r.viral_angle
             /\ selected_trends' = r.selected_trends
             /\ IF r.status = "error"
                THEN pc' = "failed" /\ response' = HttpError(500, r.detail)
                ELSE IF ~IsStr(r.viral_angle)
                THEN pc' = "failed" /\ response' = HttpError(500, DetailUnhandled)
                ELSE pc' = "done" /\ response' = HttpOk(body)
    /\ UNCHANGED <<video_idea, keyword, category_trends, global_trends, script_arg, script>>
    /\ UNCHANGED parserVars

NextAngle == HandleGenerateViralAngle

SpecAngle == InitAngle /\ [][NextAngle]_vars

----------------------------------------------------------------------------
(* A call of _parse_related_topics_csv *)

ParseCall ==
    /\ ~parse_done
    /\ pc = "idle"
    /\ trends' = _parse_related_topics_csv(csv_data)
    /\ parse_done' = TRUE
    /\ UNCHANGED csv_data
    /\ UNCHANGED requestVars

NextParser == ParseCall

SpecParser == InitParser /\ [][NextParser]_vars

----------------------------------------------------------------------------
(* Properties of the trend parser, checked under SpecParser *)

Elements(seq) == {seq[i] : i \in 1..Len(seq)}
NoDuplicates(seq) == \A i, j \in 1..Len(seq) : i # j => seq[i] # seq[j]
SectionList(t, sec) == IF sec = "top" THEN t.top ELSE t.rising

IsHeaderLine(row) == upper(row) = TOP \/ upper(row) = RISING

\* the section named by the last header line before line i, "none" without one
CursorAt(rows, i) ==
    LET hs == {j \in 1..(i - 1) : IsHeaderLine(rows[j])}
    IN IF hs = {} THEN "none"
       ELSE LET h == CHOOSE j \in hs : \A k \in hs : k <= j
            IN IF upper(rows[h]) = TOP THEN "top" ELSE "rising"

\* line i is a data line that belongs in the list of sec
StoredIn(rows, i, sec) ==
    /\ rows[i] # <<>>
    /\ ~IsHeaderLine(rows[i])
    /\ ~Occurs(":", rows[i])
    /\ CursorAt(rows, i) = sec
    /\ TopicOf(rows[i]) # <<>>

ExpectedList(rows, sec) ==
    LET idx == SelectSeq([i \in 1..Len(rows) |-> i], LAMBDA i : StoredIn(rows, i, sec))
    IN [k \in 1..Len(idx) |-> TopicOf(rows[idx[k]])]

\* C10: the parser reads the lines in order under a section cursor that starts
\* unset: header lines (TOP, RISING in any case) set the cursor and are not
\* stored; blank lines, lines with a colon and lines before the first header
\* are dropped; every other line is stored, suffix stripped and trimmed, in
\* the list of the last header seen, unless it is empty then. Empty input
\* gives two empty lists, and scenario A gives top = Coffee, Tea and
\* rising = Matcha.
C10_ParserAlgorithm ==
    parse_done =>
        /\ trends.top = ExpectedList(csv_data, "top")
        /\ trends.rising = ExpectedList(csv_data, "rising")
        /\ (csv_data = <<>> => trends = EmptyTrendSet)
        /\ (csv_data = ScenarioA =>
               trends = [top |-> <<LineCoffee, <<"T","e","a">>>>,
                         rising |-> <<<<"M","a","t","c","h","a">>>>])

C10_Witness == parse_done /\ csv_data = ScenarioA /\ Len(trends.top) = 2

\* the rows without the lines that satisfy Drop
Without(rows, Drop(_)) == SelectSeq(rows, LAMBDA row : ~Drop(row))

IsStrayComma(row) == row = LineComma

\* a data line whose topic is empty once the suffix is stripped and the rest trimmed
HasNoTopic(row) == row # <<>> /\ ~IsHeaderLine(row) /\ TopicOf(row) = <<>>

\* C8 as claimed: a data line equal to a stray comma is dropped: the parse gives
\* what it gives without these lines
C8_StrayCommaDropped ==
    parse_done => trends = _parse_related_topics_csv(Without(csv_data, IsStrayComma))

\* C8 amended: a data line with no topic left after suffix stripping and
\* trimming (",100", " ") is dropped without appending anything and without
\* ending the parse of the lines after it; a line equal to "," has no suffix to
\* strip and is stored as the topic ",".
C8_NoTopicLineDropped ==
    parse_done =>
        /\ trends = _parse_related_topics_csv(Without(csv_data, HasNoTopic))
        /\ <<>> \notin Elements(trends.top) \cup Elements(trends.rising)
        /\ \A i \in 1..Len(csv_data) :
              csv_data[i] = LineComma /\ CursorAt(csv_data, i) # "none" =>
                  LineComma \in Elements(SectionList(trends, CursorAt(csv_data, i)))

C8_Witness ==
    /\ parse_done
    /\ \E i, j \in 1..Len(csv_data) :
          /\ i < j
          /\ HasNoTopic(csv_data[i])
          /\ CursorAt(csv_data, i) = "top"
          /\ StoredIn(csv_data, j, "top")
    /\ trends.top # <<>>

\* the lines stored in the list of sec
StoredLines(rows, sec) == {i \in 1..Len(rows) : StoredIn(rows, i, sec)}

\* the k-th of them, in input order
KthStored(rows, sec, k) ==
    CHOOSE i \in StoredLines(rows, sec) :
        Cardinality({j \in StoredLines(rows, sec) : j <= i}) = k

\* C9 as claimed: neither list ever holds a string twice
C9_NoDuplicatesInSection ==
    parse_done => NoDuplicates(trends.top) /\ NoDuplicates(trends.rising)

\* C9 amended: each list holds one entry for every stored data line of its
\* section, in the order of the input lines, repeated topics included; a list
\* is free of duplicates exactly when no two stored lines of its section have
\* the same topic.
C9_ListsFollowInput ==
    parse_done =>
        \A sec \in {"top", "rising"} :
            LET list == SectionList(trends, sec)
                stored == StoredLines(csv_data, sec)
            IN /\ Len(list) = Cardinality(stored)
               /\ \A k \in 1..Len(list) :
                     list[k] = TopicOf(csv_data[KthStored(csv_data, sec, k)])
               /\ NoDuplicates(list) <=>
                     \A i, j \in stored :
                         i # j => TopicOf(csv_data[i]) # TopicOf(csv_data[j])

C9_Witness ==
    /\ parse_done
    /\ csv_data = CsvRepeatedHeader
    /\ Len(trends.top) = 2
    /\ trends.top[1] = trends.top[2]
    /\ Len(trends.rising) = 1

----------------------------------------------------------------------------
(* Properties of the aggregation, checked under SpecAngle *)

\* the sources as generate_viral_angle reads them: rising, then top, then global
SourcesInOrder == category_trends.rising \o category_trends.top \o global_trends

\* the sources and the candidates, lowercased
LowerAll(seq) == [i \in 1..Len(seq) |-> lower(seq[i])]

\* where the lowercased trend t first occurs in the lowercased sources low
FirstOccurrence(low, t) ==
    CHOOSE p \in 1..Len(low) : low[p] = t /\ \A q \in 1..(p - 1) : low[q] # t

AngleHandled == pc # "angle_request"

\* C1: the candidate list has at most 25 entries, no two of them equal without
\* case, every one of them from the sources, and they stand in the order of
\* their first occurrence in rising, then top, then global (each entry first
\* occurs before the next one does).
C1_CandidatesCappedDistinctOrdered ==
    AngleHandled =>
        \E low \in {LowerAll(SourcesInOrder)}, cand \in {LowerAll(trend_candidates)} :
            /\ Len(trend_candidates) <= 25
            /\ \A i, j \in 1..Len(cand) : i # j => cand[i] # cand[j]
            /\ \A i \in 1..Len(cand) :
                  \E p \in 1..Len(low) : low[p] = cand[i] /\ SourcesInOrder[p] = trend_candidates[i]
            /\ \A i \in 1..(Len(cand) - 1) :
                  FirstOccurrence(low, cand[i]) < FirstOccurrence(low, cand[i + 1])

C1_Witness ==
    /\ AngleHandled
    /\ Len(trend_candidates) = 25
    /\ Len(SourcesInOrder) > 25
    /\ \E p, q \in 1..Len(SourcesInOrder) :
          /\ p < q
          /\ SourcesInOrder[p] # SourcesInOrder[q]
          /\ lower(SourcesInOrder[p]) = lower(SourcesInOrder[q])

\* C7 as claimed: when generate_viral_angle succeeds on a candidate list that is
\* not empty, the selected trends are among the candidates and the instruction
\* sentence is a non-empty string; an answer that does not parse, has no
\* instruction sentence or has a selected value that is no list ends in the
\* terminal error of the phase.
C7_SelectedAmongCandidates ==
    AngleHandled /\ trend_candidates # <<>> =>
        /\ outcome.angle = "ok" =>
              /\ Elements(selected_trends.items) \subseteq Elements(trend_candidates)
              /\ Truthy(viral_angle)
        /\ (\/ ext.angle.raises
            \/ ~ext.angle.parses
            \/ ~Truthy(ext.angle.angle)
            \/ ext.angle.selected.kind \in {"none", "other"}) =>
              /\ outcome.angle = "error"
              /\ response = HttpError(500, DetailAngle)

----------------------------------------------------------------------------
(* Properties of full_pipeline, checked under Spec *)

Phases == <<"extract", "fetch", "angle", "script">>

PhaseOfCall(c) ==
    CASE c = "llm_keyword" -> 1
      [] c \in {"serp_category", "serp_global"} -> 2
      [] c = "llm_angle" -> 3
      [] c = "llm_script" -> 4

DetailOfPhase(p) ==
    CASE p = 1 -> DetailExtract
      [] p = 2 -> DetailFetch
      [] p = 3 -> DetailAngle
      [] p = 4 -> DetailScript

\* C2: the phases run in the order extract, fetch, angle, script; once a phase
\* has failed no later phase is started and no later external call is made, the
\* run has ended in the error of that phase, and there is no response body.
C2_PhasesInOrderFailureHalts ==
    /\ \A i, j \in 1..Len(calls) : i < j => PhaseOfCall(calls[i]) <= PhaseOfCall(calls[j])
    /\ \A p \in 1..4 :
          /\ outcome[Phases[p]] # "none" => \A q \in 1..(p - 1) : outcome[Phases[q]] = "ok"
          /\ outcome[Phases[p]] = "none" => \A c \in Elements(calls) : PhaseOfCall(c) # p
          /\ outcome[Phases[p]] = "error" =>
                /\ pc = "failed"
                /\ response = HttpError(500, DetailOfPhase(p))
                /\ \A q \in (p + 1)..4 : outcome[Phases[q]] = "none"
    /\ response.kind = "ok" => pc = "done" /\ \A p \in 1..4 : outcome[Phases[p]] = "ok"
    /\ response.kind # "ok" => response.body = NoBody

C2_Witness ==
    /\ pc = "failed"
    /\ outcome.extract = "ok"
    /\ outcome.fetch = "error"
    /\ calls = <<"llm_keyword", "serp_category", "serp_global">>

\* the keyword answer, trimmed and lowercased, is empty or too long, or there is none
KeywordAnswerBad ==
    \/ ext.keyword.raises
    \/ lower(strip(ext.keyword.text)) = <<>>
    \/ Len(lower(strip(ext.keyword.text))) > 50

\* C3: extract_keyword returns no keyword that is empty or longer than 50
\* characters; on such an answer, or a failed call, the run ends in the error of
\* the extract-keyword phase after that one call, with no keyword and nothing
\* called afterwards.
C3_KeywordValidOrTerminal ==
    outcome.extract # "none" =>
        /\ outcome.extract = "ok" => keyword # <<>> /\ Len(keyword) <= 50
        /\ KeywordAnswerBad =>
              /\ outcome.extract = "error"
              /\ pc = "failed"
              /\ response = HttpError(500, DetailExtract)
              /\ calls = <<"llm_keyword">>
              /\ keyword = <<>>

C3_Witness ==
    /\ pc = "failed"
    /\ ~ext.keyword.raises
    /\ Len(ext.keyword.text) = LongKeyword
    /\ calls = <<"llm_keyword">>

AllSourcesEmpty == category_trends = EmptyTrendSet /\ global_trends = <<>>

\* C4: with rising, top and global all empty the viral-angle phase makes no LLM
\* call and returns the original idea and no selected trends, and the script
\* generator is called with the original idea.
C4_EmptyCandidatesBypass ==
    outcome.angle # "none" /\ AllSourcesEmpty =>
        /\ trend_candidates = <<>>
        /\ outcome.angle = "ok"
        /\ "llm_angle" \notin Elements(calls)
        /\ viral_angle = PyStr(video_idea)
        /\ selected_trends = PyList(<<>>)
        /\ pc \in {"script", "done", "failed"}
        /\ pc # "script" => "llm_script" \in Elements(calls) /\ script_arg = PyStr(video_idea)

C4_Witness ==
    /\ pc = "done"
    /\ AllSourcesEmpty
    /\ video_idea # <<>>
    /\ script_arg = PyStr(video_idea)
    /\ calls = <<"llm_keyword", "serp_category", "serp_global", "llm_script">>

C6_NoEmptyScript ==
    outcome.script # "none" =>
        /\ outcome.script = "ok" => script # <<>>
        /\ ext.script.raises \/ strip(ext.script.text) = <<>> =>
              /\ outcome.script = "error"
              /\ pc = "failed"
              /\ response = HttpError(500, DetailScript)

====
